---- MODULE Spec2Model ----
(***************************************************************************)
(* Model of src/src/App.tsx: the training-log page.  The menu collection,  *)
(* the record collection, the add-record form, their localStorage mirrors  *)
(* and the JSON export / import with repair.                               *)
(*                                                                         *)
(* Representation.                                                         *)
(*  - A JavaScript string is a TLA+ string.  The three Japanese default    *)
(*    menu names and the user-facing messages are written with ASCII       *)
(*    stand-ins.                                                           *)
(*  - A JavaScript number is [k, v]: k = "fin" with the value v, k = "inf" *)
(*    with the sign v, or k = "nan".                                       *)
(*  - A JSON value met in a field is [t, n, s]: a number literal, a        *)
(*    literal beyond the double range (1e999), a string, null, a boolean,  *)
(*    or an absent key.                                                    *)
(*  - A JSON text (a localStorage value, an import file) is its parse tree *)
(*    plus the cases "absent" and "invalid".                               *)
(***************************************************************************)
EXTENDS Integers, Sequences, FiniteSets, TLC

VARIABLES
    menus,          \* useState<string[]>(readMenus)
    records,        \* useState<RecordItem[]>(readRecords)
    menuInput,      \* the new-menu text field
    date,           \* the form's date field
    menu,           \* the active menu selection
    weight,         \* the form's weight field (a string)
    reps,           \* the form's reps field (a string)
    errors,         \* validation messages
    importError,    \* import message, NoError for null
    storeMenus,     \* localStorage["training-menus"]
    storeRecords,   \* localStorage["training-records"]
    pending,        \* FileReader reads started and not yet completed
    now,            \* the clock Date.now() reads
    nextId,         \* how many identifiers crypto.randomUUID() has handed out
    last            \* history: the operation that ran last, with its input
                    \* and the active selection it found

vars == << menus, records, menuInput, date, menu, weight, reps, errors,
           importError, storeMenus, storeRecords, pending, now, nextId,
           last >>

\* history entries: an operation whose input the state it leaves shows, and
\* one recorded with its input and the active selection it found
Did(op) == [op |-> op, arg |-> << >>, selected |-> ""]
DidWith(op, arg) == [op |-> op, arg |-> arg, selected |-> menu]

-----------------------------------------------------------------------------
(* Bounds of the model *)

MaxIds == 2
MaxClock == 2
MaxFileLen == 2
MaxReads == 1
MaxRaceReads == 2

-----------------------------------------------------------------------------
(* Sequences *)

Contains(s, x) == \E i \in DOMAIN s : s[i] = x

Range(s) == { s[i] : i \in DOMAIN s }

SeqsUpTo(S, n) == UNION { [1..k -> S] : k \in 0..n }

RemoveAt(s, i) == SubSeq(s, 1, i - 1) \o SubSeq(s, i + 1, Len(s))

NoDuplicates(s) == \A i, j \in DOMAIN s : s[i] = s[j] => i = j

-----------------------------------------------------------------------------
(* JavaScript numbers *)

Fin(n) == [k |-> "fin", v |-> n]
PosInf == [k |-> "inf", v |-> 1]
NegInf == [k |-> "inf", v |-> -1]
NaN == [k |-> "nan", v |-> 0]

IsFinite(x) == x.k = "fin"
IsNaN(x) == x.k = "nan"

\* x > 0 and x <= 0 as JavaScript evaluates them (both false for NaN)
GtZero(x) == \/ x.k = "fin" /\ x.v > 0
             \/ x.k = "inf" /\ x.v = 1
LeZero(x) == \/ x.k = "fin" /\ x.v <= 0
             \/ x.k = "inf" /\ x.v = -1

\* a - b
Minus(a, b) ==
    IF a.k = "nan" \/ b.k = "nan" THEN NaN
    ELSE IF a.k = "fin" /\ b.k = "fin" THEN Fin(a.v - b.v)
    ELSE IF a.k = "inf" /\ b.k = "inf"
         THEN (IF a.v = b.v THEN NaN ELSE a)
    ELSE IF a.k = "inf" THEN a
    ELSE [k |-> "inf", v |-> 0 - b.v]

\* a >= b, false when either is NaN
Geq(a, b) == LET d == Minus(a, b) IN
    \/ d.k = "fin" /\ d.v >= 0
    \/ d.k = "inf" /\ d.v = 1
    \/ a.k = "inf" /\ b.k = "inf" /\ a.v = b.v

-----------------------------------------------------------------------------
(* Strings *)

\* String.prototype.trim on the strings of the model
Trim(s) ==
    CASE s = " " -> ""
      [] s = " a" -> "a"
      [] s = "a " -> "a"
      [] s = " b " -> "b"
      [] OTHER -> s

\* Number(s) for a string s: the numeral's value, 0 for "", NaN otherwise
StringToNumber(s) ==
    CASE s = "" -> Fin(0)
      [] s = "0" -> Fin(0)
      [] s = "5" -> Fin(5)
      [] s = "8" -> Fin(8)
      [] s = "-1" -> Fin(-1)
      [] s = "1e999" -> PosInf
      [] OTHER -> NaN

\* The collation key of a date string: localeCompare orders the ISO dates
\* of the model as their code units do.
DateKey(d) ==
    CASE d = "" -> 0
      [] d = "2024-01-09" -> 1
      [] d = "2024-01-10" -> 2
      [] d = "2024-02-01" -> 3
      [] OTHER -> 4

\* a.localeCompare(b): negative, zero or positive
LocaleCompare(a, b) == DateKey(a) - DateKey(b)

\* crypto.randomUUID(): the n-th identifier handed out
UUID(n) == "uuid-" \o ToString(n)

-----------------------------------------------------------------------------
(* JSON values in a field *)

JNum(n) == [t |-> "num", n |-> n, s |-> ""]
JBig == [t |-> "big", n |-> 0, s |-> ""]
JStr(s) == [t |-> "str", n |-> 0, s |-> s]
JNull == [t |-> "null", n |-> 0, s |-> ""]
JBool(b) == [t |-> "bool", n |-> IF b THEN 1 ELSE 0, s |-> ""]
JUndef == [t |-> "undef", n |-> 0, s |-> ""]

\* typeof v === "string", typeof v === "number" of the parsed value
IsString(v) == v.t = "str"
IsNumber(v) == v.t \in {"num", "big"}

\* the parsed value of a number literal: a literal beyond the double range
\* parses to Infinity
NumberValue(v) == IF v.t = "big" THEN PosInf ELSE Fin(v.n)

\* Number(v) of the parsed value
ToNumber(v) ==
    CASE v.t = "num" -> Fin(v.n)
      [] v.t = "big" -> PosInf
      [] v.t = "str" -> StringToNumber(v.s)
      [] v.t = "null" -> Fin(0)
      [] v.t = "bool" -> Fin(v.n)
      [] OTHER -> NaN

\* JSON.stringify of a number: a non-finite number is written as null
StringifyNumber(x) == IF IsFinite(x) THEN JNum(x.v) ELSE JNull

-----------------------------------------------------------------------------
(* JSON texts *)

\* An element of a records array: an object with its six fields (JUndef for
\* an absent key), or a value that is not an object (null, a number, ...).
RawObject(id, d, m, w, r, c) ==
    [obj |-> TRUE, id |-> id, date |-> d, menu |-> m, weight |-> w,
     reps |-> r, createdAt |-> c]
RawNonObject ==
    [obj |-> FALSE, id |-> JUndef, date |-> JUndef, menu |-> JUndef,
     weight |-> JUndef, reps |-> JUndef, createdAt |-> JUndef]

\* A localStorage value: "absent" (null or ""), "invalid" (not JSON),
\* "other" (JSON, not an array) or "array" with its items.
StoreText(kind, items) == [kind |-> kind, items |-> items]

\* A value of the top-level object's menus / records key
ArrayValue(items) == [arr |-> TRUE, items |-> items]
NotArray == [arr |-> FALSE, items |-> << >>]

\* An import file: "invalid" (not JSON), "null", "scalar" (a number, a
\* string, a boolean), "array" (a top-level array, which has no menus and no
\* records key) or "object" with its menus and records values.
FileText(kind, m, r) == [kind |-> kind, menus |-> m, records |-> r]

\* JSON.stringify(menus), JSON.stringify(records)
StringifyRecord(r) ==
    RawObject(JStr(r.id), JStr(r.date), JStr(r.menu),
              StringifyNumber(r.weight), StringifyNumber(r.reps),
              StringifyNumber(r.createdAt))

StringifyMenus(ms) == [i \in 1..Len(ms) |-> JStr(ms[i])]

StringifyRecords(rs) == [i \in 1..Len(rs) |-> StringifyRecord(rs[i])]

\* handleExport: the document JSON.stringify({ menus, records }) writes
handleExport(ms, rs) ==
    FileText("object", ArrayValue(StringifyMenus(ms)),
             ArrayValue(StringifyRecords(rs)))

-----------------------------------------------------------------------------
(* Loading and import repair *)

DEFAULT_MENUS == << "BenchPress", "Squat", "Deadlift" >>

TodayISO == "2024-01-10"

NoError == "null"

IsObject(e) == e.obj

IsTruthyString(s) == s # ""

\* .filter(typeof m === "string").map(trim).filter(Boolean)
CleanMenus(items) ==
    LET strs == SelectSeq(items, IsString)
        trimmed == [i \in 1..Len(strs) |-> Trim(strs[i].s)]
    IN  SelectSeq(trimmed, IsTruthyString)

readMenus(text) ==
    IF text.kind = "absent" THEN DEFAULT_MENUS
    ELSE IF text.kind = "array"
         THEN LET cleaned == CleanMenus(text.items)
              IN  IF Len(cleaned) > 0 THEN cleaned ELSE DEFAULT_MENUS
    ELSE DEFAULT_MENUS

\* a filter that forgets the weight
KeepRecordAnyWeight(r) == r.date # "" /\ r.menu # "" /\ GtZero(r.reps)

\* the final .filter of readRecords and normalizeImport
KeepRecord(r) ==
    r.date # "" /\ r.menu # "" /\ GtZero(r.weight) /\ GtZero(r.reps)

\* how many of the first n objects take a generated identifier
IdsTaken(objs, n) == Cardinality({ j \in 1..n : ~IsString(objs[j].id) })

\* the .map callback: menuDefault is "" in readRecords and finalMenus[0] in
\* normalizeImport; t is Date.now(), fresh the identifier createId() returns
RepairRecord(r, menuDefault, t, fresh) ==
    LET w == ToNumber(r.weight)
        n == ToNumber(r.reps)
    IN  [id |-> IF IsString(r.id) THEN r.id.s ELSE fresh,
         date |-> IF IsString(r.date) THEN r.date.s ELSE "",
         menu |-> IF IsString(r.menu) THEN r.menu.s ELSE menuDefault,
         weight |-> IF IsFinite(w) THEN w ELSE Fin(0),
         reps |-> IF IsFinite(n) THEN n ELSE Fin(0),
         createdAt |-> IF IsNumber(r.createdAt)
                       THEN NumberValue(r.createdAt) ELSE Fin(t)]

RepairAll(items, menuDefault, t, base) ==
    LET objs == SelectSeq(items, IsObject)
        mapped == [i \in 1..Len(objs) |->
                     RepairRecord(objs[i], menuDefault, t,
                                  UUID(base + IdsTaken(objs, i - 1) + 1))]
    IN  SelectSeq(mapped, KeepRecord)

\* identifiers createId() hands out while the items are repaired
IdsUsed(items) ==
    LET objs == SelectSeq(items, IsObject) IN IdsTaken(objs, Len(objs))

readRecords(text, t, base) ==
    IF text.kind # "array" THEN << >>
    ELSE RepairAll(text.items, "", t, base)

normalizeImport(data, t, base) ==
    LET menusRaw == IF data.menus.arr THEN data.menus.items ELSE << >>
        nextMenus == CleanMenus(menusRaw)
        finalMenus == IF Len(nextMenus) > 0 THEN nextMenus ELSE DEFAULT_MENUS
        recordsRaw == IF data.records.arr THEN data.records.items ELSE << >>
        nextRecords == RepairAll(recordsRaw, finalMenus[1], t, base)
    IN  [finalMenus |-> finalMenus, nextRecords |-> nextRecords]

\* a comparator that puts the older of two records of one date first
CompareRecordsOldestFirst(a, b) ==
    IF a.date = b.date
    THEN LET d == Minus(a.createdAt, b.createdAt)
         IN  IF d.k = "nan" THEN 0 ELSE d.v
    ELSE LocaleCompare(b.date, a.date)

\* the comparator of sortRecords: negative, zero (also for NaN) or positive
CompareRecords(a, b) ==
    IF a.date = b.date
    THEN LET d == Minus(b.createdAt, a.createdAt)
         IN  IF d.k = "nan" THEN 0
             ELSE IF d.k = "inf" THEN d.v
             ELSE d.v
    ELSE LocaleCompare(b.date, a.date)

\* Array.prototype.sort is stable: insert each record after the last one
\* that does not compare greater than it
RECURSIVE InsertSorted(_, _)
InsertSorted(sorted, r) ==
    IF sorted = << >> THEN << r >>
    ELSE IF CompareRecords(Head(sorted), r) <= 0
         THEN << Head(sorted) >> \o InsertSorted(Tail(sorted), r)
         ELSE << r >> \o sorted

RECURSIVE sortRecords(_)
sortRecords(rs) ==
    IF rs = << >> THEN << >>
    ELSE InsertSorted(sortRecords(SubSeq(rs, 1, Len(rs) - 1)), rs[Len(rs)])

\* useMemo(() => sortRecords(records), [records])
sortedRecords == sortRecords(records)

-----------------------------------------------------------------------------
(* Messages *)

MSG_MENU_EMPTY == "enter a menu name"
MSG_MENU_DUPLICATE == "the same menu is already registered"
MSG_DATE == "date is required"
MSG_MENU == "select a menu"
MSG_WEIGHT == "weight must be a number greater than 0"
MSG_REPS == "reps must be a number greater than 0"
MSG_IMPORT_SHAPE == "invalid JSON shape"
MSG_IMPORT_PARSE == "failed to read JSON"

-----------------------------------------------------------------------------
(* Effects *)

\* useEffect(..., [menus]) after a render in which menus changed to ms while
\* the active selection is m: the value written under training-menus and the
\* active selection it leaves
SavedMenus(ms, old) ==
    IF Len(ms) > 0 THEN StoreText("array", StringifyMenus(ms)) ELSE old

MenuAfterEffect(ms, m) ==
    IF Len(ms) > 0 /\ ~Contains(ms, m) THEN ms[1] ELSE m

\* useEffect(..., [records]): the value written under training-records
SavedRecords(rs) == StoreText("array", StringifyRecords(rs))

-----------------------------------------------------------------------------
(* Menu operations *)

SetMenuInput(s) ==
    /\ last' = Did("setMenuInput")
    /\ menuInput' = s
    /\ UNCHANGED << menus, records, date, menu, weight, reps, errors,
                    importError, storeMenus, storeRecords, pending, now,
                    nextId >>

\* onChange of the menu <select>: one of the menus or the blank option
SelectMenu(m) ==
    /\ m \in Range(menus) \cup {""}
    /\ last' = Did("selectMenu")
    /\ menu' = m
    /\ UNCHANGED << menus, records, menuInput, date, weight, reps, errors,
                    importError, storeMenus, storeRecords, pending, now,
                    nextId >>

handleAddMenu ==
    LET trimmed == Trim(menuInput) IN
    /\ last' = Did("handleAddMenu")
    /\ IF trimmed = ""
       THEN /\ errors' = << MSG_MENU_EMPTY >>
            /\ UNCHANGED << menus, records, menuInput, date, menu, weight, reps,
                            importError, storeMenus, storeRecords, pending, now,
                            nextId >>
       ELSE IF Contains(menus, trimmed)
       THEN /\ errors' = << MSG_MENU_DUPLICATE >>
            /\ UNCHANGED << menus, records, menuInput, date, menu, weight, reps,
                            importError, storeMenus, storeRecords, pending, now,
                            nextId >>
       ELSE LET nextMenus == Append(menus, trimmed) IN
            /\ menus' = nextMenus
            /\ menu' = MenuAfterEffect(nextMenus, trimmed)
            /\ menuInput' = ""
            /\ errors' = << >>
            /\ storeMenus' = SavedMenus(nextMenus, storeMenus)
            /\ UNCHANGED << records, date, weight, reps, importError,
                            storeRecords, pending, now, nextId >>

\* a handleDeleteMenu that moves the selection to the first menu whatever
\* the selection was
SelectionAlwaysFirst(finalMenus, m) == finalMenus[1]

\* the selection handleDeleteMenu leaves, before the effect runs
SelectionAfterDelete(finalMenus, m) ==
    IF ~Contains(finalMenus, m) THEN finalMenus[1] ELSE m

MenusAfterDelete(ms, target) ==
    LET Keep(item) == item # target
        nextMenus == SelectSeq(ms, Keep)
    IN  IF Len(nextMenus) > 0 THEN nextMenus ELSE DEFAULT_MENUS

handleDeleteMenu(target) ==
    LET finalMenus == MenusAfterDelete(menus, target) IN
    /\ target \in Range(menus)
    /\ last' = DidWith("handleDeleteMenu", target)
    /\ menus' = finalMenus
    /\ menu' = MenuAfterEffect(finalMenus,
                               SelectionAfterDelete(finalMenus, menu))
    /\ storeMenus' = SavedMenus(finalMenus, storeMenus)
    /\ UNCHANGED << records, menuInput, date, weight, reps, errors,
                    importError, storeRecords, pending, now, nextId >>

-----------------------------------------------------------------------------
(* Record operations *)

SetDate(d) ==
    /\ last' = Did("setDate")
    /\ date' = d
    /\ UNCHANGED << menus, records, menuInput, menu, weight, reps, errors,
                    importError, storeMenus, storeRecords, pending, now,
                    nextId >>

SetWeight(w) ==
    /\ last' = Did("setWeight")
    /\ weight' = w
    /\ UNCHANGED << menus, records, menuInput, date, menu, reps, errors,
                    importError, storeMenus, storeRecords, pending, now,
                    nextId >>

SetReps(r) ==
    /\ last' = Did("setReps")
    /\ reps' = r
    /\ UNCHANGED << menus, records, menuInput, date, menu, weight, errors,
                    importError, storeMenus, storeRecords, pending, now,
                    nextId >>

\* !field || Number.isNaN(value) || value <= 0
NumberFieldFails(field) ==
    LET value == StringToNumber(field)
    IN  field = "" \/ IsNaN(value) \/ LeZero(value)

\* a validateRecord that stops at the first failed check
validateRecordFirstOnly(d, m, w, r) ==
    IF d = "" THEN << MSG_DATE >>
    ELSE IF m = "" THEN << MSG_MENU >>
    ELSE IF NumberFieldFails(w) THEN << MSG_WEIGHT >>
    ELSE IF NumberFieldFails(r) THEN << MSG_REPS >>
    ELSE << >>

\* the messages validateRecord collects, in its order, over the field
\* values d, m, w, r
validateRecord(d, m, w, r) ==
    (IF d = "" THEN << MSG_DATE >> ELSE << >>)
    \o (IF m = "" THEN << MSG_MENU >> ELSE << >>)
    \o (IF NumberFieldFails(w) THEN << MSG_WEIGHT >> ELSE << >>)
    \o (IF NumberFieldFails(r) THEN << MSG_REPS >> ELSE << >>)

\* setRecords((prev) => [newRecord, ...prev])
Prepend(newRecord, prev) == << newRecord >> \o prev

\* handleAddRecord over a form that holds w and r in its weight and reps
\* fields
SubmitForm(w, r) ==
    LET nextErrors == validateRecord(date, menu, w, r) IN
    /\ last' = Did("handleAddRecord")
    /\ IF Len(nextErrors) # 0
       THEN /\ errors' = nextErrors
            /\ weight' = w
            /\ reps' = r
            /\ UNCHANGED << menus, records, menuInput, date, menu,
                            importError, storeMenus, storeRecords, pending,
                            now, nextId >>
       ELSE LET newRecord == [id |-> UUID(nextId + 1),
                              date |-> date,
                              menu |-> menu,
                              weight |-> StringToNumber(w),
                              reps |-> StringToNumber(r),
                              createdAt |-> Fin(now)]
                nextRecords == Prepend(newRecord, records)
            IN  /\ nextId < MaxIds
                /\ records' = nextRecords
                /\ nextId' = nextId + 1
                /\ weight' = ""
                /\ reps' = ""
                /\ errors' = << >>
                /\ storeRecords' = SavedRecords(nextRecords)
                /\ UNCHANGED << menus, menuInput, date, menu, importError,
                                storeMenus, pending, now >>

handleAddRecord == SubmitForm(weight, reps)

\* The user types w and r into the weight and the reps field and submits:
\* SetWeight(w), SetReps(r) and handleAddRecord in one step.  Nothing but
\* handleAddRecord reads the two fields.
FillAndSubmit(w, r) == SubmitForm(w, r)

\* prev.filter((item) => item.id !== id)
RecordsAfterDelete(prev, id) ==
    LET Keep(item) == item.id # id IN SelectSeq(prev, Keep)

handleDeleteRecord(id) ==
    /\ \E i \in DOMAIN records : records[i].id = id
    /\ last' = Did("handleDeleteRecord")
    /\ records' = RecordsAfterDelete(records, id)
    /\ storeRecords' = SavedRecords(records')
    /\ UNCHANGED << menus, menuInput, date, menu, weight, reps, errors,
                    importError, storeMenus, pending, now, nextId >>

-----------------------------------------------------------------------------
(* Import, reload, clock *)

\* handleImport: a FileReader starts reading the selected file; slots bounds
\* the reads in flight
handleImport(file, slots) ==
    /\ Len(pending) < slots
    /\ last' = Did("handleImport")
    /\ pending' = Append(pending, file)
    /\ UNCHANGED << menus, records, menuInput, date, menu, weight, reps,
                    errors, importError, storeMenus, storeRecords, now,
                    nextId >>

\* JSON.parse throws
ParseThrows(file) == file.kind = "invalid"

\* !parsed || typeof parsed !== "object"
ShapeRejected(file) == file.kind \in {"null", "scalar"}

\* one reader shared by every read: its result is that of the read started
\* last
SharedReaderResult(i) == pending[Len(pending)]

\* reader.result in the onload of the i-th read in flight: each read has its
\* own reader
ReaderResult(i) == pending[i]

\* reader.onload of the i-th read in flight
ReaderOnLoad(i) ==
    LET file == ReaderResult(i) IN
    /\ i \in DOMAIN pending
    /\ last' = DidWith("onload", pending[i])
    /\ pending' = RemoveAt(pending, i)
    /\ IF ParseThrows(file)
       THEN /\ importError' = MSG_IMPORT_PARSE
            /\ UNCHANGED << menus, records, menuInput, date, menu, weight,
                            reps, errors, storeMenus, storeRecords, now,
                            nextId >>
       ELSE IF ShapeRejected(file)
       THEN /\ importError' = MSG_IMPORT_SHAPE
            /\ UNCHANGED << menus, records, menuInput, date, menu, weight,
                            reps, errors, storeMenus, storeRecords, now,
                            nextId >>
       ELSE LET n == normalizeImport(file, now, nextId)
                used == IF file.records.arr
                        THEN IdsUsed(file.records.items) ELSE 0
            IN  /\ nextId + used <= MaxIds
                /\ menus' = n.finalMenus
                /\ menu' = MenuAfterEffect(n.finalMenus, n.finalMenus[1])
                /\ records' = n.nextRecords
                /\ nextId' = nextId + used
                /\ importError' = NoError
                /\ errors' = << >>
                /\ storeMenus' = SavedMenus(n.finalMenus, storeMenus)
                /\ storeRecords' = SavedRecords(n.nextRecords)
                /\ UNCHANGED << menuInput, date, weight, reps, now >>

\* The page constructed over the storage content sm, sr at time t with base
\* identifiers handed out: the useState initialisers, then both effects of
\* the first render.
Constructed(sm, sr, t, base) ==
    LET ms == readMenus(sm)
        rs == readRecords(sr, t, base)
    IN  [menus |-> ms,
         records |-> rs,
         menu |-> MenuAfterEffect(ms, ms[1]),
         storeMenus |-> SavedMenus(ms, sm),
         storeRecords |-> SavedRecords(rs),
         nextId |-> base + (IF sr.kind = "array" THEN IdsUsed(sr.items)
                            ELSE 0)]

\* The page is reloaded: constructed again over what storage holds; reads in
\* flight die with the old page
Reload ==
    LET c == Constructed(storeMenus, storeRecords, now, nextId) IN
    /\ c.nextId <= MaxIds
    /\ last' = Did("reload")
    /\ menus' = c.menus
    /\ records' = c.records
    /\ menuInput' = ""
    /\ date' = TodayISO
    /\ menu' = c.menu
    /\ weight' = ""
    /\ reps' = ""
    /\ errors' = << >>
    /\ importError' = NoError
    /\ storeMenus' = c.storeMenus
    /\ storeRecords' = c.storeRecords
    /\ pending' = << >>
    /\ nextId' = c.nextId
    /\ now' = now

\* The first load, over the storage content sm, sr
Load(sm, sr) ==
    LET c == Constructed(sm, sr, 0, 0) IN
    /\ menus = c.menus
    /\ records = c.records
    /\ menuInput = ""
    /\ date = TodayISO
    /\ menu = c.menu
    /\ weight = ""
    /\ reps = ""
    /\ errors = << >>
    /\ importError = NoError
    /\ storeMenus = c.storeMenus
    /\ storeRecords = c.storeRecords
    /\ pending = << >>
    /\ nextId = c.nextId
    /\ now = 0
    /\ last = Did("load")

\* Time passes
Tick ==
    /\ now < MaxClock
    /\ last' = Did("tick")
    /\ now' = now + 1
    /\ UNCHANGED << menus, records, menuInput, date, menu, weight, reps,
                    errors, importError, storeMenus, storeRecords, pending,
                    nextId >>

-----------------------------------------------------------------------------
(* Inputs *)

AbsentText == StoreText("absent", << >>)
InvalidText == StoreText("invalid", << >>)
OtherText == StoreText("other", << >>)

\* elements of a stored or imported menus array
RawMenuItems == { JStr("a"), JStr(" a"), JStr(" "), JNum(1) }

MenuArrays == SeqsUpTo(RawMenuItems, MaxFileLen)

MenuStoreTexts ==
    { AbsentText, InvalidText, OtherText }
        \cup { StoreText("array", a) : a \in MenuArrays }

\* what the user types into the new-menu field
MenuInputs == { "", " a", "b" }

\* import files that carry menus only: no menus key, two names equal once
\* trimmed, nothing left once cleaned, one name
MenuFiles ==
    { FileText("object", NotArray, NotArray),
      FileText("object", ArrayValue(<< JStr("a"), JStr(" a") >>), NotArray),
      FileText("object", ArrayValue(<< JStr(" "), JNum(1) >>), NotArray),
      FileText("object", ArrayValue(<< JStr(" b ") >>), NotArray) }

-----------------------------------------------------------------------------
(* The menu collection: load, add, remove, select, import *)

InitMenus == \E sm \in MenuStoreTexts : Load(sm, AbsentText)

NextMenus ==
    \/ \E s \in MenuInputs : SetMenuInput(s)
    \/ \E m \in Range(menus) \cup {""} : SelectMenu(m)
    \/ handleAddMenu
    \/ \E target \in Range(menus) : handleDeleteMenu(target)
    \/ \E file \in MenuFiles : handleImport(file, MaxReads)
    \/ \E i \in DOMAIN pending : ReaderOnLoad(i)
    \/ Reload

SpecMenus == InitMenus /\ [][NextMenus]_vars

-----------------------------------------------------------------------------
(* The record collection and its mirrors: load, add, remove, import, reload *)

\* elements of a stored or imported records array
RawFull ==
    RawObject(JStr("x"), JStr("2024-01-09"), JStr("a"), JNum(8), JNum(5),
              JNum(1))
\* a second record under the same identifier
RawSameId ==
    RawObject(JStr("x"), JStr("2024-02-01"), JStr("b"), JNum(8), JNum(5),
              JNum(2))
\* numerals given as a string and a boolean, a timestamp beyond the double
\* range
RawBigTime ==
    RawObject(JStr("y"), JStr("2024-01-09"), JStr("a"), JStr("8"),
              JBool(TRUE), JBig)
\* no identifier, no menu, no timestamp
RawBare ==
    RawObject(JUndef, JStr("2024-01-10"), JUndef, JNum(8), JNum(5), JNull)
\* elements the repair cannot save
RawZeroWeight ==
    RawObject(JStr("z"), JStr("2024-01-09"), JStr("a"), JNum(0), JNum(5),
              JNum(1))
RawBigWeight ==
    RawObject(JStr("z"), JStr("2024-01-09"), JStr("a"), JBig, JNum(5),
              JNum(1))
RawBadReps ==
    RawObject(JStr("z"), JStr("2024-01-09"), JStr("a"), JNum(8), JStr("abc"),
              JNum(1))
RawNoDate ==
    RawObject(JStr("z"), JNum(20240109), JStr("a"), JNum(8), JNum(5), JNum(1))
RawNoMenu ==
    RawObject(JStr("z"), JStr("2024-01-09"), JStr(""), JNum(8), JNum(-1),
              JNum(1))

RawRecordItems ==
    { RawFull, RawBigTime, RawBare, RawZeroWeight, RawBigWeight, RawBadReps,
      RawNoDate, RawNoMenu, RawNonObject }

RecordStoreTexts ==
    { AbsentText, InvalidText, OtherText }
        \cup { StoreText("array", a) :
                 a \in SeqsUpTo(RawRecordItems, MaxFileLen) }

\* import files the import accepts
FileTwins ==
    FileText("object", ArrayValue(<< JStr("a") >>),
             ArrayValue(<< RawFull, RawSameId >>))
FileBare ==
    FileText("object", NotArray, ArrayValue(<< RawBare, RawZeroWeight >>))
FileBigTime ==
    FileText("object", ArrayValue(<< JStr(" b ") >>),
             ArrayValue(<< RawNonObject, RawBigTime >>))
FileNoRecords ==
    FileText("object", ArrayValue(<< JStr("a"), JStr(" ") >>), NotArray)

GoodFiles == { FileTwins, FileBare, FileBigTime, FileNoRecords }

\* what the user types into the weight and the reps field
StoreWeights == { "8", "0" }
StoreReps == { "5" }

InitStore == \E sr \in RecordStoreTexts : Load(AbsentText, sr)

NextStore ==
    \/ \E w \in StoreWeights, r \in StoreReps : FillAndSubmit(w, r)
    \/ \E i \in DOMAIN records : handleDeleteRecord(records[i].id)
    \/ \E target \in Range(menus) : handleDeleteMenu(target)
    \/ \E file \in GoodFiles : handleImport(file, MaxReads)
    \/ \E i \in DOMAIN pending : ReaderOnLoad(i)
    \/ Reload

SpecStore == InitStore /\ [][NextStore]_vars

-----------------------------------------------------------------------------
(* The add-record form: the fields, submit, remove *)

FormDates == { "", "2024-01-09" }
FormWeights == { "", "0", "8", "abc", "1e999" }
FormReps == { "", "0", "5" }

\* a page whose stored menus are the single name "a"
InitForm == Load(StoreText("array", << JStr("a") >>), AbsentText)

NextForm ==
    \/ \E d \in FormDates : SetDate(d)
    \/ \E w \in FormWeights : SetWeight(w)
    \/ \E r \in FormReps : SetReps(r)
    \/ \E m \in Range(menus) \cup {""} : SelectMenu(m)
    \/ handleAddRecord
    \/ \E i \in DOMAIN records : handleDeleteRecord(records[i].id)

SpecForm == InitForm /\ [][NextForm]_vars

-----------------------------------------------------------------------------
(* Import: reads in flight, files of every shape *)

RecordA == [id |-> "x", date |-> "2024-01-09", menu |-> "a",
            weight |-> Fin(8), reps |-> Fin(5), createdAt |-> Fin(1)]
RecordB == [id |-> "y", date |-> "2024-02-01", menu |-> "b",
            weight |-> Fin(8), reps |-> Fin(5), createdAt |-> Fin(2)]

\* the exports of two pages
FileA == handleExport(<< "a" >>, << RecordA >>)
FileB == handleExport(<< "b" >>, << RecordB >>)

\* text that is not JSON, and JSON whose top-level value is null, a number
\* and an array
FileInvalid == FileText("invalid", NotArray, NotArray)
FileNull == FileText("null", NotArray, NotArray)
FileScalar == FileText("scalar", NotArray, NotArray)
FileTopArray == FileText("array", NotArray, NotArray)

ImportFiles ==
    { FileA, FileB, FileInvalid, FileNull, FileScalar, FileTopArray }

\* a page that stored two menus and one record
InitImport ==
    Load(StoreText("array", << JStr("b"), JStr("a") >>),
         StoreText("array", << RawFull >>))

NextImport ==
    \/ \E file \in ImportFiles : handleImport(file, MaxRaceReads)
    \/ \E i \in DOMAIN pending : ReaderOnLoad(i)
    \/ \E m \in Range(menus) \cup {""} : SelectMenu(m)
    \/ \E target \in Range(menus) : handleDeleteMenu(target)
    \/ \E i \in DOMAIN records : handleDeleteRecord(records[i].id)

SpecImport == InitImport /\ [][NextImport]_vars

-----------------------------------------------------------------------------
(* The sorted projection *)

SortRaw(id, d, c) == RawObject(JStr(id), JStr(d), JStr("a"), JNum(8),
                               JNum(5), c)

\* stored records of three dates, with equal, different and out-of-range
\* timestamps
SortItems ==
    { SortRaw("p", "2024-01-10", JNum(1)),
      SortRaw("q", "2024-01-10", JNum(2)),
      SortRaw("r", "2024-02-01", JNum(1)),
      SortRaw("s", "2024-01-09", JNum(2)),
      SortRaw("t", "2024-01-10", JBig) }

SortStoreTexts ==
    { StoreText("array", a) : a \in SeqsUpTo(SortItems, MaxFileLen) }

InitSort == \E sr \in SortStoreTexts : Load(AbsentText, sr)

NextSort ==
    \/ \E d \in { "2024-01-09", "2024-02-01" } : SetDate(d)
    \/ Tick
    \/ FillAndSubmit("8", "5")
    \/ \E i \in DOMAIN records : handleDeleteRecord(records[i].id)

SpecSort == InitSort /\ [][NextSort]_vars

-----------------------------------------------------------------------------
(* Claims *)

\* x is a number greater than zero
Positive(x) == (x.k = "fin" /\ x.v > 0) \/ (x.k = "inf" /\ x.v > 0)

SatisfiesInvariants(r) ==
    r.date # "" /\ r.menu # "" /\ Positive(r.weight) /\ Positive(r.reps)

\* C1: the menu collection is never empty and holds no name twice.
C1_MenusNonEmptyUnique == Len(menus) > 0 /\ NoDuplicates(menus)

\* the active selection has just been removed
RemovedActive == last.op = "handleDeleteMenu" /\ last.arg = last.selected

\* C5 as stated: removing the active selection leaves the selection on the
\* first menu of the collection as it stands after the removal, or on the
\* empty string if none remain.
C5_ResetToFirst ==
    RemovedActive => menu = (IF Len(menus) > 0 THEN menus[1] ELSE "")

\* C5 amended: removing the active selection leaves the selection on the
\* first menu of the collection as it stands after the removal, except when
\* that collection still holds the removed name, which happens only when the
\* removal emptied the collection and the default set substituted for it
\* holds the name: then the selection stays on the removed name.
C5_ResetUnlessStillPresent ==
    RemovedActive =>
        /\ Len(menus) > 0
        /\ menu = (IF Contains(menus, last.arg) THEN last.arg ELSE menus[1])
        /\ Contains(menus, last.arg) =>
               menus = DEFAULT_MENUS /\ Contains(DEFAULT_MENUS, last.arg)

\* the only menu left, a default name that is not the first, was the active
\* selection and has been removed
C5_Witness ==
    /\ RemovedActive
    /\ last.arg = "Squat"
    /\ menus = DEFAULT_MENUS
    /\ menu = "Squat"

\* the active selection was removed and other menus remain
C5_WitnessRemaining ==
    /\ RemovedActive
    /\ ~Contains(menus, last.arg)
    /\ menu = menus[1]

\* C2: every record of the in-memory collection has a non-empty date, a
\* non-empty menu, weight > 0 and reps > 0, so an element that fails one of
\* these after repair is not in the collection.
C2_RecordsValid == \A i \in DOMAIN records : SatisfiesInvariants(records[i])

\* an import of an element without identifier, menu and timestamp and of an
\* element of weight 0 has completed: the first is kept, repaired with the
\* first imported menu, the second is gone
C2_Witness ==
    /\ last.op = "onload"
    /\ last.arg = FileBare
    /\ Len(records) = 1
    /\ records[1].menu = "BenchPress"
    /\ records[1].date = "2024-01-10"

\* C10: no two records of the in-memory collection share an identifier.
C10_UniqueIds ==
    \A i, j \in DOMAIN records : records[i].id = records[j].id => i = j

\* a record without its identifier
StripId(r) == [date |-> r.date, menu |-> r.menu, weight |-> r.weight,
               reps |-> r.reps, createdAt |-> r.createdAt]

\* C6: when every record satisfies the record invariants, importing the
\* exported document yields the same menus and the same set of records,
\* identifiers aside.
C6_RoundTrip ==
    C2_RecordsValid =>
        LET n == normalizeImport(handleExport(menus, records), now, nextId)
        IN  /\ n.finalMenus = menus
            /\ { StripId(n.nextRecords[i]) : i \in DOMAIN n.nextRecords }
                   = { StripId(records[i]) : i \in DOMAIN records }

\* C8: once an operation and its effects have run, loading from storage
\* yields the menus and the records that are in memory, in the same order.
C8_Mirror ==
    last.op \in { "handleAddMenu", "handleDeleteMenu", "handleAddRecord",
                  "handleDeleteRecord", "onload" } =>
        /\ readMenus(storeMenus) = menus
        /\ readRecords(storeRecords, now, nextId) = records

\* the checks of the add-record form that fail in the current state, each
\* with its message: a number field fails when its text is not the numeral
\* of a number greater than zero
FailedChecks ==
    { c \in { << date = "", MSG_DATE >>,
              << menu = "", MSG_MENU >>,
              << ~Positive(StringToNumber(weight)), MSG_WEIGHT >>,
              << ~Positive(StringToNumber(reps)), MSG_REPS >> } : c[1] }

\* C4: a submit of the add-record form with a failed check leaves the
\* record collection unchanged and reports exactly one message per failed
\* check, all together; a submit with no failed check prepends exactly one
\* new record, built from the fields, and leaves the error list empty.
C4_SubmitStep ==
    last'.op = "handleAddRecord" =>
        IF FailedChecks # {}
        THEN /\ records' = records
             /\ Len(errors') = Cardinality(FailedChecks)
             /\ Range(errors') = { c[2] : c \in FailedChecks }
        ELSE /\ Len(records') = Len(records) + 1
             /\ Tail(records') = records
             /\ Head(records').date = date
             /\ Head(records').menu = menu
             /\ Head(records').weight = StringToNumber(weight)
             /\ Head(records').reps = StringToNumber(reps)
             /\ errors' = << >>

C4_Submit == [][C4_SubmitStep]_vars

\* weight 0 and reps 0 were submitted together: two messages, no record
C4_Witness ==
    /\ last.op = "handleAddRecord"
    /\ weight = "0"
    /\ reps = "0"
    /\ date # ""
    /\ menu # ""
    /\ errors = << MSG_WEIGHT, MSG_REPS >>
    /\ records = << >>

\* a second record was submitted with every check passing
C4_WitnessAdded ==
    /\ last.op = "handleAddRecord"
    /\ Len(records) = 2
    /\ errors = << >>

\* C3 as stated: an import of text that is not JSON, or whose top-level
\* value is not an object, reports an import error and leaves the menus,
\* the records and the active selection as they were.
C3_RejectedStep ==
    (last'.op = "onload"
        /\ last'.arg.kind \in { "invalid", "null", "scalar", "array" }) =>
        /\ importError' # NoError
        /\ UNCHANGED << menus, records, menu >>

C3_Rejected == [][C3_RejectedStep]_vars

\* what a completed read of the file leaves in memory
Produces(file, ms, rs, m) ==
    /\ menus' = ms
    /\ records' = rs
    /\ menu' = m

\* C9: whatever reads are in flight and in whatever order they complete, a
\* read that completes leaves the menus, the records and the active
\* selection entirely those of its own file, or, when the read fails, those
\* that were there before it.
C9_ReadStep ==
    last'.op = "onload" =>
        CASE last'.arg = FileA ->
                 Produces(FileA, << "a" >>, << RecordA >>, "a")
          [] last'.arg = FileB ->
                 Produces(FileB, << "b" >>, << RecordB >>, "b")
          [] last'.arg = FileTopArray ->
                 Produces(FileTopArray, DEFAULT_MENUS, << >>, DEFAULT_MENUS[1])
          [] OTHER -> UNCHANGED << menus, records, menu >>

C9_LastReadWins == [][C9_ReadStep]_vars

\* the read of B has completed while the read of A, started before B
\* completed, is still in flight: memory holds B's menus and B's records
C9_Witness ==
    /\ last.op = "onload"
    /\ last.arg = FileB
    /\ pending = << FileA >>
    /\ menus = << "b" >>
    /\ records = << RecordB >>
    /\ menu = "b"

\* the number of times x occurs in s
Count(s, x) == Cardinality({ i \in DOMAIN s : s[i] = x })

\* the records of s that handleAddRecord created, by the order of creation
CreatedInOrder(s, older, newer) ==
    \E k1, k2 \in 1..nextId :
        k1 < k2 /\ older.id = UUID(k1) /\ newer.id = UUID(k2)

\* C7: the sorted projection is a permutation of the record list, descending
\* by date and, within one date, descending by creation timestamp, so that
\* of two records added on one date the one created later comes first; the
\* record list itself and its stored copy stay in insertion order.
C7_SortedProjection ==
    LET s == sortedRecords IN
    /\ Len(s) = Len(records)
    /\ \A i \in DOMAIN records : Count(s, records[i]) = Count(records, records[i])
    /\ \A i, j \in DOMAIN s :
           i < j =>
               /\ DateKey(s[i].date) >= DateKey(s[j].date)
               /\ s[i].date = s[j].date => Geq(s[i].createdAt, s[j].createdAt)
               /\ s[i].date = s[j].date => ~CreatedInOrder(s, s[i], s[j])
    /\ \A i, j \in DOMAIN records :
           i < j => ~CreatedInOrder(records, records[i], records[j])
    /\ storeRecords = SavedRecords(records)

\* two records were added on one date within the same millisecond, to a list
\* that holds a record of a later date behind them: the projection differs
\* from the list and shows the later of the two first
C7_Witness ==
    /\ Len(records) >= 3
    /\ records[1].id = UUID(2)
    /\ records[2].id = UUID(1)
    /\ records[1].date = records[2].date
    /\ records[1].createdAt = records[2].createdAt
    /\ sortedRecords # records
    /\ \E i, j \in DOMAIN sortedRecords :
           i < j /\ sortedRecords[i] = records[1]
                 /\ sortedRecords[j] = records[2]

====
